---- MODULE Spec2Model ----
(***************************************************************************)
(* Model of src/app.py: the Streamlit proposal evaluator.                  *)
(*                                                                         *)
(* A text (Python str) is a sequence of characters, each character a       *)
(* one-element TLA+ string; the non-ASCII characters are named by their    *)
(* code point ("U+00E9").  The constant instructional header is a sequence *)
(* of the string literals of the source, one element per literal.  A byte  *)
(* string (Python bytes) is a sequence of integers 0..255.                 *)
(***************************************************************************)
EXTENDS Integers, Sequences, FiniteSets, TLC

VARIABLES
    PdfReader,       \* module level: TRUE iff pypdf was imported (line 44-47)
    Document,        \* module level: TRUE iff python-docx was imported (49-52)
    openai,          \* module level: TRUE iff openai was imported (54-57)
    pc,              \* position of the running call
    api_key_input,   \* main: the key typed in the text input
    mime_type,       \* main / extract_text: the declared media type
    file_buffer,     \* the io.BytesIO: [bytes, pos, closed]
    pages,           \* extract_text: reader.pages, the outcome of each page
    page_idx,        \* extract_text: number of pages the for loop has taken
    pages_text,      \* extract_text: the list pages_text
    paragraphs,      \* extract_text: the list paragraphs
    attempts,        \* history: the extraction attempts of this call
    proposal_text,   \* main: what extract_text returned, [kind, val]
    document_text,   \* build_prompt / evaluate_proposal: the parameter
    prompt,          \* the value build_prompt returned
    openai_api_key,  \* the client's attribute openai.api_key
    requests,        \* history: the chat requests sent
    result,          \* main: what evaluate_proposal returned, [kind, val]
    st_error,        \* the messages shown with st.error
    shown            \* main: the analysis shown with st.markdown

vars == <<PdfReader, Document, openai, pc, api_key_input, mime_type,
          file_buffer, pages, page_idx, pages_text, paragraphs, attempts,
          proposal_text, document_text, prompt, openai_api_key, requests, result, st_error,
          shown>>

----------------------------------------------------------------------------
(* Bounds *)

MaxBytes == 2
MaxPages == 2
MaxParagraphs == 2
MaxText == 3

----------------------------------------------------------------------------
(* Python semantics used by the code *)

\* str.strip() removes the characters for which str.isspace() holds.
Whitespace ==
    {" ", "\t", "\n", "\r", "\f", "U+000B", "U+001C", "U+001D", "U+001E",
     "U+001F", "U+0085", "U+00A0", "U+1680", "U+2000", "U+2001", "U+2002",
     "U+2003", "U+2004", "U+2005", "U+2006", "U+2007", "U+2008", "U+2009",
     "U+200A", "U+2028", "U+2029", "U+202F", "U+205F", "U+3000"}

RECURSIVE LStrip(_)
LStrip(s) ==
    IF s = <<>> THEN <<>>
    ELSE IF Head(s) \in Whitespace THEN LStrip(Tail(s)) ELSE s

RECURSIVE RStrip(_)
RStrip(s) ==
    IF s = <<>> THEN <<>>
    ELSE IF s[Len(s)] \in Whitespace THEN RStrip(SubSeq(s, 1, Len(s) - 1))
         ELSE s

\* str.strip()
Strip(s) == RStrip(LStrip(s))

\* "\n".join(list)
RECURSIVE JoinNl(_)
JoinNl(list) ==
    IF list = <<>> THEN <<>>
    ELSE IF Len(list) = 1 THEN list[1]
         ELSE list[1] \o <<"\n">> \o JoinNl(Tail(list))

\* The character of a code point.
Chr(cp) ==
    CASE cp = 9 -> "\t"
      [] cp = 10 -> "\n"
      [] cp = 13 -> "\r"
      [] cp = 32 -> " "
      [] cp = 97 -> "a"
      [] cp = 98 -> "b"
      [] cp = 160 -> "U+00A0"
      [] cp = 233 -> "U+00E9"

IsCont(b) == b >= 128 /\ b <= 191

\* The length of the UTF-8 sequence a byte starts; 0 for a byte that starts
\* none (a continuation byte, 0xC0, 0xC1, 0xF5..0xFF).
Utf8Width(b) ==
    IF b < 128 THEN 1
    ELSE IF b >= 194 /\ b <= 223 THEN 2
    ELSE IF b >= 224 /\ b <= 239 THEN 3
    ELSE IF b >= 240 /\ b <= 244 THEN 4
    ELSE 0

\* A well-formed UTF-8 sequence starts at index i of bs.
Utf8ValidAt(bs, i) ==
    LET w == Utf8Width(bs[i]) IN
    /\ w > 0
    /\ i + w - 1 <= Len(bs)
    /\ \A k \in 1..(w - 1) : IsCont(bs[i + k])
    /\ (bs[i] = 224 => bs[i + 1] >= 160)
    /\ (bs[i] = 237 => bs[i + 1] <= 159)
    /\ (bs[i] = 240 => bs[i + 1] >= 144)
    /\ (bs[i] = 244 => bs[i + 1] <= 143)

Utf8CodePoint(bs, i) ==
    LET w == Utf8Width(bs[i]) IN
    IF w = 1 THEN bs[i]
    ELSE IF w = 2 THEN (bs[i] - 192) * 64 + (bs[i + 1] - 128)
    ELSE IF w = 3 THEN (bs[i] - 224) * 4096 + (bs[i + 1] - 128) * 64
                       + (bs[i + 2] - 128)
    ELSE (bs[i] - 240) * 262144 + (bs[i + 1] - 128) * 4096
         + (bs[i + 2] - 128) * 64 + (bs[i + 3] - 128)

\* bytes.decode("utf-8", errors="ignore") from index i on: a well-formed
\* sequence gives its character, any other byte is dropped.
RECURSIVE DecodeFrom(_, _)
DecodeFrom(bs, i) ==
    IF i > Len(bs) THEN <<>>
    ELSE IF Utf8ValidAt(bs, i)
         THEN <<Chr(Utf8CodePoint(bs, i))>>
              \o DecodeFrom(bs, i + Utf8Width(bs[i]))
         ELSE DecodeFrom(bs, i + 1)

Decode(bs) == DecodeFrom(bs, 1)

\* BytesIO.read(): the bytes from the current position to the end.
BufferRead(buf) == SubSeq(buf.bytes, buf.pos + 1, Len(buf.bytes))

----------------------------------------------------------------------------
(* Input domains *)

\* Byte values: an ASCII letter, a space, and the two bytes of U+00E9, each
\* of which is invalid on its own.
ByteVals == {97, 32, 195, 169}

RECURSIVE SeqsUpTo(_, _)
SeqsUpTo(S, n) ==
    IF n = 0 THEN {<<>>}
    ELSE LET shorter == SeqsUpTo(S, n - 1) IN
         shorter \cup {Append(s, x) : s \in {t \in shorter : Len(t) = n - 1},
                                      x \in S}

ByteStrings == SeqsUpTo(ByteVals, MaxBytes)

MIME_PDF == "application/pdf"
MIME_DOCX ==
    "application/vnd.openxmlformats-officedocument.wordprocessingml.document"
MIME_MSWORD == "application/msword"

MimeTypes == {MIME_PDF, MIME_DOCX, MIME_MSWORD, "text/plain"}

\* What page.extract_text() does for one page: returns a text, returns
\* None, or raises.
PageOutcomes ==
    {[kind |-> "text", text |-> <<"a">>],
     [kind |-> "text", text |-> <<" ">>],
     [kind |-> "none", text |-> <<>>],
     [kind |-> "raise", text |-> <<>>]}

PageLists == SeqsUpTo(PageOutcomes, MaxPages)

\* The texts of the paragraphs of a parsed word-processing document.
ParagraphLists == SeqsUpTo({<<"b">>, <<" ">>}, MaxParagraphs)

ApiKeys == {"", "sk-key"}

\* The content of the first choice of a chat response.
Responses == {<<"o", "k", "\n">>, <<>>}

Texts == SeqsUpTo({"a", " ", "\n"}, MaxText)

NoValue == [kind |-> "unset", val |-> <<>>]
NoneValue == [kind |-> "None", val |-> <<>>]
Str(s) == [kind |-> "str", val |-> s]

----------------------------------------------------------------------------
(* build_prompt *)

\* The string literals of criteria_description, in order.  The non-ASCII
\* hyphen, dash and apostrophe of the source are written "-" and "'".
criteria_description ==
    <<"You are an experienced venture-capital analyst.  Based on the FNR JUMP ",
      "Programme review guidelines, evaluate the following project proposal.  ",
      "Assess it against these criteria:\n",
      "1. Novelty - is the technology or concept novel/disruptive, and is there ",
      "enough evidence to show scientific robustness?\n",
      "2. Market/customer understanding and commercialisation strengths (for ",
      "commercial projects) - how well does the team understand the market and ",
      "target customers, and what are the plans for bringing the product to market?\n",
      "3. Social needs and methodology (for social impact projects) - has the ",
      "proposal identified a clear societal need and provided a suitable methodology ",
      "for addressing it?\n",
      "4. Impact magnitude - what is the expected scale of impact?\n",
      "5. Intellectual property and validation - what is the status of IP and ",
      "technical validation?\n",
      "6. Team competences and expertise - assess the team's experience and the ",
      "fit of any entrepreneur in residence (EiR) if applicable.\n\n",
      "Provide a structured analysis highlighting strengths, weaknesses, risks and ",
      "opportunities for each criterion.  Offer recommendations for improvement ",
      "but **do not** make a final funding decision.  Do **not** use sensitive ",
      "personal attributes (e.g. race, gender, health) in your reasoning.  ",
      "Instead focus on objective, project-related factors.  At the end, ",
      "summarise the overall investment outlook.">>

\* The literal part of the f-string between the two interpolations.
proposal_separator == <<"\n\nHere is the proposal:\n\n">>

\* A build_prompt that forgets to strip the text.
build_prompt_unstripped(text) ==
    criteria_description \o proposal_separator \o text

build_prompt(text) == criteria_description \o proposal_separator \o Strip(text)

----------------------------------------------------------------------------
(* Initial state: the module has been imported *)

Init ==
    /\ PdfReader \in BOOLEAN
    /\ Document \in BOOLEAN
    /\ openai \in BOOLEAN
    /\ pc = "main"
    /\ api_key_input = ""
    /\ mime_type = ""
    /\ file_buffer = [bytes |-> <<>>, pos |-> 0, closed |-> FALSE]
    /\ pages = <<>>
    /\ page_idx = 0
    /\ pages_text = <<>>
    /\ paragraphs = <<>>
    /\ attempts = <<>>
    /\ proposal_text = NoValue
    /\ document_text = <<>>
    /\ prompt = <<>>
    /\ openai_api_key = ""
    /\ requests = <<>>
    /\ result = NoValue
    /\ st_error = <<>>
    /\ shown = <<>>

----------------------------------------------------------------------------
(* main, up to the call of extract_text *)

\* Lines 192-213 with no file uploaded: main ends.
MainNoUpload ==
    /\ pc = "main"
    /\ \E key \in ApiKeys : api_key_input' = key
    /\ pc' = "done"
    /\ UNCHANGED <<PdfReader, Document, openai, mime_type, file_buffer, pages,
                   page_idx, pages_text, paragraphs, attempts, proposal_text,
                   document_text, prompt, openai_api_key, requests, result,
                   st_error, shown>>

\* Lines 192-216 with a file uploaded: the buffer is built from the bytes
\* of the upload and extract_text is called.
MainUpload ==
    /\ pc = "main"
    /\ \E key \in ApiKeys : api_key_input' = key
    /\ \E mt \in MimeTypes : mime_type' = mt
    /\ \E bs \in ByteStrings :
          file_buffer' = [bytes |-> bs, pos |-> 0, closed |-> FALSE]
    /\ pc' = "extract_seek"
    /\ UNCHANGED <<PdfReader, Document, openai, pages, page_idx, pages_text,
                   paragraphs, attempts, proposal_text, document_text, prompt,
                   openai_api_key, requests, result, st_error, shown>>

----------------------------------------------------------------------------
(* extract_text *)

extract_unchanged ==
    UNCHANGED <<PdfReader, Document, openai, api_key_input, mime_type,
                document_text, prompt, openai_api_key, requests, result,
                st_error, shown>>

\* The return of extract_text to line 216 of main.
ExtractReturn(text) ==
    /\ proposal_text' = Str(text)
    /\ pc' = "main_check"

\* The record of an extraction attempt that starts now: its path, the
\* position of the buffer when it starts, and how it went.
Attempt(path, outcome) ==
    [path |-> path, pos |-> file_buffer.pos, outcome |-> outcome]

\* Where a parser that raised may have left the buffer: open at any offset,
\* or closed (the position of a closed buffer cannot be read any more).
BufferAfterFailure(buf) ==
    {[bytes |-> buf.bytes, pos |-> p, closed |-> FALSE] :
        p \in 0..Len(buf.bytes)}
    \cup {[bytes |-> buf.bytes, pos |-> buf.pos, closed |-> TRUE]}

\* Line 76: file_buffer.seek(0).
ExtractSeek ==
    /\ pc = "extract_seek"
    /\ file_buffer' = [file_buffer EXCEPT !.pos = 0]
    /\ pc' = "extract_pdf"
    /\ UNCHANGED <<pages, page_idx, pages_text, paragraphs, attempts,
                   proposal_text>>
    /\ extract_unchanged

\* A condition that forgets the availability of the parser.
PdfApplies_any_parser == mime_type = MIME_PDF

PdfApplies == mime_type = MIME_PDF /\ PdfReader

\* Line 79, condition false.
PdfSkip ==
    /\ pc = "extract_pdf"
    /\ ~PdfApplies
    /\ pc' = "extract_docx"
    /\ UNCHANGED <<file_buffer, pages, page_idx, pages_text, paragraphs,
                   attempts, proposal_text>>
    /\ extract_unchanged

\* Lines 81-82: PdfReader(file_buffer) returns a reader.
PdfOpenOk ==
    /\ pc = "extract_pdf"
    /\ PdfApplies
    /\ attempts' = Append(attempts, Attempt("pdf", "opened"))
    /\ \E ps \in PageLists : pages' = ps
    /\ page_idx' = 0
    /\ pages_text' = <<>>
    /\ pc' = "extract_pdf_pages"
    /\ UNCHANGED <<file_buffer, paragraphs, proposal_text>>
    /\ extract_unchanged

\* Lines 81, 90-91: PdfReader(file_buffer) raises.
PdfOpenFail ==
    /\ pc = "extract_pdf"
    /\ PdfApplies
    /\ attempts' = Append(attempts, Attempt("pdf", "open_failed"))
    /\ \E buf \in BufferAfterFailure(file_buffer) : file_buffer' = buf
    /\ pc' = "extract_docx"
    /\ UNCHANGED <<pages, page_idx, pages_text, paragraphs, proposal_text>>
    /\ extract_unchanged

\* A loop without the inner try: a page that raises ends the PDF path.
PdfPage_abort ==
    /\ pc = "extract_pdf_pages"
    /\ page_idx < Len(pages)
    /\ page_idx' = page_idx + 1
    /\ pages_text' = IF pages[page_idx + 1].kind = "raise"
                     THEN pages_text
                     ELSE Append(pages_text, pages[page_idx + 1].text)
    /\ pc' = IF pages[page_idx + 1].kind = "raise" THEN "extract_docx" ELSE pc
    /\ UNCHANGED <<file_buffer, pages, paragraphs, attempts, proposal_text>>
    /\ extract_unchanged

\* Lines 83-88: one iteration of the loop over reader.pages.  A page whose
\* extract_text raises is skipped; None counts as "".
PdfPage ==
    /\ pc = "extract_pdf_pages"
    /\ page_idx < Len(pages)
    /\ page_idx' = page_idx + 1
    /\ pages_text' = IF pages[page_idx + 1].kind = "raise"
                     THEN pages_text
                     ELSE Append(pages_text, pages[page_idx + 1].text)
    /\ UNCHANGED <<pc, file_buffer, pages, paragraphs, attempts, proposal_text>>
    /\ extract_unchanged

\* Lines 83, 90-91: the iteration over reader.pages itself raises.
PdfPagesFail ==
    /\ pc = "extract_pdf_pages"
    /\ \E buf \in BufferAfterFailure(file_buffer) : file_buffer' = buf
    /\ attempts' = [attempts EXCEPT ![Len(attempts)].outcome = "pages_failed"]
    /\ pc' = "extract_docx"
    /\ UNCHANGED <<pages, page_idx, pages_text, paragraphs, proposal_text>>
    /\ extract_unchanged

\* Line 89: the loop is over.
PdfReturn ==
    /\ pc = "extract_pdf_pages"
    /\ page_idx = Len(pages)
    /\ ExtractReturn(Strip(JoinNl(pages_text)))
    /\ UNCHANGED <<file_buffer, pages, page_idx, pages_text, paragraphs,
                   attempts>>
    /\ extract_unchanged

DocxApplies == mime_type \in {MIME_DOCX, MIME_MSWORD} /\ Document

\* Lines 94-97, condition false.
DocxSkip ==
    /\ pc = "extract_docx"
    /\ ~DocxApplies
    /\ pc' = "extract_fallback"
    /\ UNCHANGED <<file_buffer, pages, page_idx, pages_text, paragraphs,
                   attempts, proposal_text>>
    /\ extract_unchanged

\* Lines 99-101: the document opens and its paragraphs are read.
DocxOk ==
    /\ pc = "extract_docx"
    /\ DocxApplies
    /\ attempts' = Append(attempts, Attempt("docx", "opened"))
    /\ \E ps \in ParagraphLists : paragraphs' = ps
    /\ ExtractReturn(Strip(JoinNl(paragraphs')))
    /\ UNCHANGED <<file_buffer, pages, page_idx, pages_text>>
    /\ extract_unchanged

\* Lines 99-100, 102-103: Document(file_buffer) or the reading of the
\* paragraphs raises.
DocxFail ==
    /\ pc = "extract_docx"
    /\ DocxApplies
    /\ attempts' = Append(attempts, Attempt("docx", "open_failed"))
    /\ \E buf \in BufferAfterFailure(file_buffer) : file_buffer' = buf
    /\ pc' = "extract_fallback"
    /\ UNCHANGED <<pages, page_idx, pages_text, paragraphs, proposal_text>>
    /\ extract_unchanged

\* A fallback that keeps the page texts collected before the failure.
FallbackRead_keeping_pages ==
    /\ pc = "extract_fallback"
    /\ ~file_buffer.closed
    /\ attempts' = Append(attempts, Attempt("plain", "read"))
    /\ file_buffer' = [file_buffer EXCEPT !.pos = Len(file_buffer.bytes)]
    /\ ExtractReturn(JoinNl(pages_text) \o Decode(BufferRead(file_buffer)))
    /\ UNCHANGED <<pages, page_idx, pages_text, paragraphs>>
    /\ extract_unchanged

\* Lines 107-108: the rest of the buffer is read and decoded.
FallbackRead ==
    /\ pc = "extract_fallback"
    /\ ~file_buffer.closed
    /\ attempts' = Append(attempts, Attempt("plain", "read"))
    /\ file_buffer' = [file_buffer EXCEPT !.pos = Len(file_buffer.bytes)]
    /\ ExtractReturn(Decode(BufferRead(file_buffer)))
    /\ UNCHANGED <<pages, page_idx, pages_text, paragraphs>>
    /\ extract_unchanged

\* A fallback without its try: the exception of read() reaches the caller.
FallbackFail_uncaught ==
    /\ pc = "extract_fallback"
    /\ file_buffer.closed
    /\ attempts' = Append(attempts, Attempt("plain", "read_failed"))
    /\ proposal_text' = [kind |-> "raise", val |-> <<>>]
    /\ pc' = "crashed"
    /\ UNCHANGED <<file_buffer, pages, page_idx, pages_text, paragraphs>>
    /\ extract_unchanged

\* Lines 107, 109-110: read() raises on a closed buffer.
FallbackFail ==
    /\ pc = "extract_fallback"
    /\ file_buffer.closed
    /\ attempts' = Append(attempts, Attempt("plain", "read_failed"))
    /\ ExtractReturn(<<>>)
    /\ UNCHANGED <<file_buffer, pages, page_idx, pages_text, paragraphs>>
    /\ extract_unchanged

----------------------------------------------------------------------------
(* main, after extract_text *)

\* Python truth of a str: it is not empty.
Truthy(v) == v.kind = "str" /\ v.val # <<>>

COULD_NOT_EXTRACT == "Could not extract text from the uploaded file."
NO_OPENAI == "The openai package is not available."
NO_KEY == "Please provide a valid OpenAI API key."
API_ERROR == "Error communicating with OpenAI API"

main_unchanged ==
    UNCHANGED <<PdfReader, Document, openai, api_key_input, mime_type,
                file_buffer, pages, page_idx, pages_text, paragraphs,
                attempts, proposal_text>>

\* Lines 217-221: the extracted text is empty.
MainExtractEmpty ==
    /\ pc = "main_check"
    /\ ~Truthy(proposal_text)
    /\ st_error' = Append(st_error, COULD_NOT_EXTRACT)
    /\ pc' = "done"
    /\ UNCHANGED <<document_text, prompt, openai_api_key, requests, result,
                   shown>>
    /\ main_unchanged

\* Lines 222-227: the extracted text is not empty and the button is shown.
MainExtracted ==
    /\ pc = "main_check"
    /\ Truthy(proposal_text)
    /\ pc' = "main_button"
    /\ UNCHANGED <<document_text, prompt, openai_api_key, requests, result,
                   st_error, shown>>
    /\ main_unchanged

\* Line 227: the button was not clicked in this run.
MainNoClick ==
    /\ pc = "main_button"
    /\ pc' = "done"
    /\ UNCHANGED <<document_text, prompt, openai_api_key, requests, result,
                   st_error, shown>>
    /\ main_unchanged

\* Lines 227-229: the button was clicked, evaluate_proposal is called.
MainClick ==
    /\ pc = "main_button"
    /\ document_text' = proposal_text.val
    /\ pc' = "evaluate"
    /\ UNCHANGED <<prompt, openai_api_key, requests, result, st_error, shown>>
    /\ main_unchanged

\* Lines 230-232: a non-empty analysis is shown.
MainResult ==
    /\ pc = "main_result"
    /\ shown' = IF Truthy(result) THEN result.val ELSE shown
    /\ pc' = "done"
    /\ UNCHANGED <<document_text, prompt, openai_api_key, requests, result,
                   st_error>>
    /\ main_unchanged

----------------------------------------------------------------------------
(* evaluate_proposal(document_text, api_key_input) *)

\* The keyword arguments of openai.ChatCompletion.create, lines 178-183.
ChatRequest(content) ==
    [model |-> "gpt-5-mini-2025-08-07",
     messages |-> <<[role |-> "user", content |-> content]>>,
     temperature |-> "0.3",
     max_tokens |-> 1024]

\* Lines 164-168.
EvalNoOpenai ==
    /\ pc = "evaluate"
    /\ ~openai
    /\ st_error' = Append(st_error, NO_OPENAI)
    /\ result' = NoneValue
    /\ pc' = "main_result"
    /\ UNCHANGED <<document_text, prompt, openai_api_key, requests, shown>>
    /\ main_unchanged

\* Lines 170-172.
EvalNoKey ==
    /\ pc = "evaluate"
    /\ openai
    /\ api_key_input = ""
    /\ st_error' = Append(st_error, NO_KEY)
    /\ result' = NoneValue
    /\ pc' = "main_result"
    /\ UNCHANGED <<document_text, prompt, openai_api_key, requests, shown>>
    /\ main_unchanged

\* Lines 174-175.
EvalPrepare ==
    /\ pc = "evaluate"
    /\ openai
    /\ api_key_input # ""
    /\ openai_api_key' = api_key_input
    /\ prompt' = build_prompt(document_text)
    /\ pc' = "evaluate_request"
    /\ UNCHANGED <<document_text, requests, result, st_error, shown>>
    /\ main_unchanged

\* Lines 178-184: the request returns a response with a content.
EvalRequestOk ==
    /\ pc = "evaluate_request"
    /\ requests' = Append(requests, ChatRequest(prompt))
    /\ \E content \in Responses : result' = Str(Strip(content))
    /\ pc' = "main_result"
    /\ UNCHANGED <<document_text, prompt, openai_api_key, st_error, shown>>
    /\ main_unchanged

\* A handler that sends the request again after a failure.
EvalRequestRaise_retry ==
    /\ pc = "evaluate_request"
    /\ requests' = requests \o <<ChatRequest(prompt), ChatRequest(prompt)>>
    /\ st_error' = Append(st_error, API_ERROR)
    /\ result' = NoneValue
    /\ pc' = "main_result"
    /\ UNCHANGED <<document_text, prompt, openai_api_key, shown>>
    /\ main_unchanged

\* Lines 178-187: the request, or the reading of its response, raises.
EvalRequestRaise ==
    /\ pc = "evaluate_request"
    /\ requests' = Append(requests, ChatRequest(prompt))
    /\ st_error' = Append(st_error, API_ERROR)
    /\ result' = NoneValue
    /\ pc' = "main_result"
    /\ UNCHANGED <<document_text, prompt, openai_api_key, shown>>
    /\ main_unchanged

----------------------------------------------------------------------------
(* The run of main *)

Next ==
    \/ MainNoUpload
    \/ MainUpload
    \/ ExtractSeek
    \/ PdfSkip
    \/ PdfOpenOk
    \/ PdfOpenFail
    \/ PdfPage
    \/ PdfPagesFail
    \/ PdfReturn
    \/ DocxSkip
    \/ DocxOk
    \/ DocxFail
    \/ FallbackRead
    \/ FallbackFail
    \/ MainExtractEmpty
    \/ MainExtracted
    \/ MainNoClick
    \/ MainClick
    \/ MainResult
    \/ EvalNoOpenai
    \/ EvalNoKey
    \/ EvalPrepare
    \/ EvalRequestOk
    \/ EvalRequestRaise

Spec == Init /\ [][Next]_vars

----------------------------------------------------------------------------
(* build_prompt called on its own, with any text *)

InitBuild ==
    /\ PdfReader \in BOOLEAN
    /\ Document \in BOOLEAN
    /\ openai \in BOOLEAN
    /\ pc = "build_prompt"
    /\ document_text \in Texts
    /\ api_key_input = ""
    /\ mime_type = ""
    /\ file_buffer = [bytes |-> <<>>, pos |-> 0, closed |-> FALSE]
    /\ pages = <<>>
    /\ page_idx = 0
    /\ pages_text = <<>>
    /\ paragraphs = <<>>
    /\ attempts = <<>>
    /\ proposal_text = NoValue
    /\ prompt = <<>>
    /\ openai_api_key = ""
    /\ requests = <<>>
    /\ result = NoValue
    /\ st_error = <<>>
    /\ shown = <<>>

\* Line 145: the call returns.
BuildPromptCall ==
    /\ pc = "build_prompt"
    /\ prompt' = build_prompt(document_text)
    /\ pc' = "build_prompt_done"
    /\ UNCHANGED <<document_text, openai_api_key, requests, result, st_error,
                   shown>>
    /\ main_unchanged

NextBuild == BuildPromptCall

SpecBuild == InitBuild /\ [][NextBuild]_vars

----------------------------------------------------------------------------
(* Properties *)

ExtractPcs ==
    {"extract_seek", "extract_pdf", "extract_pdf_pages", "extract_docx",
     "extract_fallback"}

AfterExtractPcs ==
    {"main_check", "main_button", "evaluate", "evaluate_request",
     "main_result"}

\* extract_text has returned a string to main.
Returned == proposal_text.kind = "str"

ExtractStep ==
    \/ ExtractSeek
    \/ PdfSkip \/ PdfOpenOk \/ PdfOpenFail \/ PdfPage \/ PdfPagesFail
    \/ PdfReturn
    \/ DocxSkip \/ DocxOk \/ DocxFail
    \/ FallbackRead \/ FallbackFail

\* A bound on the steps extract_text still has to take.
ExtractMeasure ==
    CASE pc = "extract_seek" -> MaxPages + 5
      [] pc = "extract_pdf" -> MaxPages + 4
      [] pc = "extract_pdf_pages" -> 3 + (Len(pages) - page_idx)
      [] pc = "extract_docx" -> 2
      [] pc = "extract_fallback" -> 1
      [] OTHER -> 0

\* The text has no leading and no trailing whitespace.
Trimmed(s) ==
    s = <<>> \/ (s[1] \notin Whitespace /\ s[Len(s)] \notin Whitespace)

\* t is s without its leading and trailing whitespace.
IsTrimOf(t, s) ==
    /\ Trimmed(t)
    /\ \E i \in 1..(Len(s) + 1) : \E j \in 0..Len(s) :
          /\ t = SubSeq(s, i, j)
          /\ \A k \in 1..(i - 1) : s[k] \in Whitespace
          /\ \A k \in (j + 1)..Len(s) : s[k] \in Whitespace

\* The texts of the pages whose extraction did not raise, in page order.
TextsOfGoodPages(ps) ==
    LET good == SelectSeq(ps, LAMBDA p : p.kind # "raise")
    IN  [i \in 1..Len(good) |-> good[i].text]

\* C1: extract_text terminates and returns a string, whatever the bytes,
\* the media type and the outcomes of the parsers: no exception reaches the
\* caller, while the call runs a step is always possible, and every step
\* brings the call nearer to its return.
C1_ExtractTotal ==
    /\ [](/\ pc # "crashed"
          /\ proposal_text.kind \in {"unset", "str"}
          /\ (pc \in AfterExtractPcs => Returned)
          /\ (pc \in ExtractPcs => ENABLED ExtractStep))
    /\ [][(pc \in ExtractPcs) => (ExtractMeasure' < ExtractMeasure)]_vars

\* A page raised, then the enumeration of the pages raised, then the read
\* of the fallback raised, and a string was returned.
C1_Witness ==
    /\ Returned
    /\ Len(attempts) = 2
    /\ attempts[1].outcome = "pages_failed"
    /\ attempts[2].outcome = "read_failed"
    /\ page_idx >= 1
    /\ pages[1].kind = "raise"

\* C2: when the PDF (or DOCX) parser fails on the bytes, the result is the
\* permissive UTF-8 decoding of the whole of the same bytes.
C2_FallbackDecodesWholeBytes ==
    (/\ Returned
     /\ Len(attempts) = 2
     /\ attempts[1].outcome = "open_failed"
     /\ attempts[2].outcome = "read")
    => proposal_text.val = Decode(file_buffer.bytes)

\* C3: the string extract_text returns has no leading and no trailing
\* whitespace, whichever path produced it.
C3_ResultTrimmed == Returned => Trimmed(proposal_text.val)

\* C4: for a PDF that opens, the result is the trimmed newline-join of the
\* texts of exactly the pages that did not raise, in page order, and the
\* plain-text fallback is not used.
C4_FailingPagesSkipped ==
    (/\ Returned
     /\ attempts # <<>>
     /\ attempts[1].path = "pdf"
     /\ attempts[1].outcome = "opened")
    => /\ proposal_text.val = Strip(JoinNl(TextsOfGoodPages(pages)))
       /\ Len(attempts) = 1

\* The first of two pages raised and the second gave its text.
C4_Witness ==
    /\ Returned
    /\ Len(attempts) = 1
    /\ attempts[1].path = "pdf"
    /\ Len(pages) = 2
    /\ pages[1].kind = "raise"
    /\ pages[2].kind = "text"
    /\ proposal_text.val = <<"a">>

\* C5: build_prompt returns, for every text, the constant header, then the
\* constant separator, then the trimmed text and nothing else.
C5_PromptShape ==
    pc = "build_prompt_done" =>
        LET h == Len(criteria_description)
            n == h + Len(proposal_separator)
        IN  /\ Len(prompt) >= n
            /\ SubSeq(prompt, 1, h) = criteria_description
            /\ SubSeq(prompt, h + 1, n) = proposal_separator
            /\ IsTrimOf(SubSeq(prompt, n + 1, Len(prompt)), document_text)

\* The prompt of a text with whitespace on both sides.
C5_Witness ==
    /\ pc = "build_prompt_done"
    /\ document_text = <<" ", "a", "\n">>
    /\ prompt[Len(prompt)] = "a"

\* C6: with a media type that is none of the three, or with the matching
\* parser unavailable, no parser is invoked and the result is the
\* permissive UTF-8 decoding of the bytes.
C6_DirectFallback ==
    (/\ Returned
     /\ \/ mime_type \notin {MIME_PDF, MIME_DOCX, MIME_MSWORD}
        \/ (mime_type = MIME_PDF /\ ~PdfReader)
        \/ (mime_type \in {MIME_DOCX, MIME_MSWORD} /\ ~Document))
    => /\ Len(attempts) = 1
       /\ attempts[1].path = "plain"
       /\ attempts[1].pos = 0
       /\ proposal_text.val = Decode(file_buffer.bytes)

\* A PDF upload without the PDF parser, whose first byte is dropped.
C6_Witness ==
    /\ Returned
    /\ mime_type = MIME_PDF
    /\ ~PdfReader
    /\ file_buffer.bytes = <<195, 97>>
    /\ proposal_text.val = <<"a">>

\* C7: when extraction yields no usable text (only whitespace, or an
\* error), main reports the could-not-extract error and the model call is
\* not reached.
C7_NoEvaluationOfBlankText ==
    /\ (pc \in {"main_button", "evaluate", "evaluate_request", "main_result"}
        => Strip(proposal_text.val) # <<>>)
    /\ ((pc = "done" /\ Returned /\ Strip(proposal_text.val) = <<>>)
        => st_error = <<COULD_NOT_EXTRACT>>)

\* C8: every extraction attempt of a call starts with the buffer at offset
\* 0, and there are at most two attempts.
C8_AttemptsStartAtZero ==
    /\ Len(attempts) <= 2
    /\ \A i \in 1..Len(attempts) : attempts[i].pos = 0

\* C9: a format-specific path that completes gives the result alone, even
\* an empty one, and no later path is attempted; a PDF path that is
\* abandoned gives nothing to the result, which is what the fallback makes
\* of the buffer.
C9_FirstSuccessWins ==
    Returned =>
        /\ (attempts[1].path = "pdf" /\ attempts[1].outcome = "opened"
            => /\ Len(attempts) = 1
               /\ proposal_text.val = Strip(JoinNl(pages_text)))
        /\ (attempts[1].path = "docx" /\ attempts[1].outcome = "opened"
            => /\ Len(attempts) = 1
               /\ proposal_text.val = Strip(JoinNl(paragraphs)))
        /\ (attempts[1].outcome \in {"open_failed", "pages_failed"}
            => /\ Len(attempts) = 2
               /\ attempts[2].path = "plain"
               /\ proposal_text.val =
                     IF attempts[2].outcome = "read_failed" THEN <<>>
                     ELSE Decode(SubSeq(file_buffer.bytes, attempts[2].pos + 1,
                                        Len(file_buffer.bytes))))

\* The enumeration of the pages failed after a page text was collected, and
\* the result is the text of the bytes only.
C9_Witness ==
    /\ Returned
    /\ attempts[1].outcome = "pages_failed"
    /\ pages_text = <<<<"a">>>>
    /\ file_buffer.bytes = <<195, 169>>
    /\ proposal_text.val = <<"U+00E9">>

\* C10: evaluate_proposal sends at most one request; without the client
\* library or without a key it sends none, leaves the client's key unset
\* and returns None; when the request raises it returns None; the sole
\* message of the request is the user message with the built prompt.
C10_SingleRequest ==
    /\ Len(requests) <= 1
    /\ ((~openai \/ api_key_input = "")
        => /\ requests = <<>>
           /\ openai_api_key = ""
           /\ (pc = "main_result" => result = NoneValue))
    /\ (API_ERROR \in {st_error[i] : i \in 1..Len(st_error)}
        => result = NoneValue)
    /\ (requests # <<>>
        => requests[1].messages =
              <<[role |-> "user",
                 content |-> criteria_description \o proposal_separator
                             \o Strip(document_text)]>>)

\* The single request raised and None was returned.
C10_Witness ==
    /\ pc = "main_result"
    /\ Len(requests) = 1
    /\ st_error = <<API_ERROR>>
    /\ result = NoneValue

====
